---- MODULE Spec2Model ----
(***************************************************************************)
(* Model of the batch sanitization pipeline of src/pipeline.py:            *)
(* process_dataset (span extraction, batching, the batch loop with its     *)
(* checkpoint, validation, reassembly, output, checkpoint removal) and     *)
(* process_batch_with_retry (the retry controller around the generation    *)
(* service, with the acceptance and repair of a response).                 *)
(*                                                                         *)
(* A text is a sequence of tokens (strings); a line is a sequence of       *)
(* tokens in which OPEN and CLOSE are the two delimiters. Sequences are    *)
(* 1-based here where Python's are 0-based; batch indices stay 0-based.    *)
(***************************************************************************)
EXTENDS Integers, Sequences, FiniteSets, TLC

VARIABLES
    \* ---- files
    input,          \* INPUT_FILE: "missing" or the document (a sequence of lines)
    ckptFile,       \* CHECKPOINT_FILE: absent, corrupt (truncated / partly written) or a record
    output,         \* OUTPUT_FILE: [written |-> BOOLEAN, lines |-> document]
    \* ---- the external service
    svc,            \* how the service behaves: "any" or one of the deterministic services
    \* ---- module-level configuration
    batch_size,     \* BATCH_SIZE
    \* ---- process_dataset's locals
    pc,             \* position of the single pipeline thread
    lines, dirty_indices, dirty_texts,
    completed_batch_indices, cleaned_texts, batch_idx,
    \* ---- process_batch_with_retry's locals
    batch, retries, outcome, result,
    \* ---- history variables (not read by the program)
    calls,          \* service calls made by this invocation of the retry controller (saturating)
    rateLimits,     \* attempts of this invocation on which the service reported a rate limit (saturating)
    onlyErrors,     \* every attempt of this invocation so far failed with a non-rate-limit error
    how,            \* how the invocation returned: "none", "accepted" or "fallback"
    loaded,         \* completed_batches as load_checkpoint returned them at the start of the run
    sent,           \* batch indices handed to the retry controller in this run
    stale,          \* the checkpoint was left by a run on another input document
    rawCount,       \* len(cleaned_texts) when the batch loop ended, before any padding
    reported,       \* the count mismatch was printed by this run
    exit,           \* how the last run ended
    sinceCall       \* what this run did last, of calling the service and pausing:
                    \* "none" (no call yet), "call" or "pause" (a time.sleep since the call)

vars == <<input, ckptFile, output, svc, batch_size, pc, lines, dirty_indices, dirty_texts,
          completed_batch_indices, cleaned_texts, batch_idx, batch, retries,
          outcome, result, calls, rateLimits, onlyErrors, how, loaded, sent, stale,
          rawCount, reported, exit, sinceCall>>

----------------------------------------------------------------------------
(* Bounds of the model and constants of the program *)

\* BATCH_SIZE (50 in the source) scaled down for the pipeline runs
BatchSize == 2
\* largest BATCH_SIZE and longest line of the runs on small documents
MaxBatchSize == 4
MaxLineLen == 4
\* most spans of a document of one-span lines
MaxSpans == 6
\* largest batch handed to the retry controller when it is checked on its own
MaxK == 11
\* how many items more than asked a response list may hold
MaxExtra == 1
\* the history counters calls and rateLimits saturate here
MaxCalls == 3

max_retries == 2
\* the acceptance ratio 0.9, as AcceptNum / AcceptDen
AcceptNum == 9
AcceptDen == 10

OPEN == "<TO_GENERALIZE>"
CLOSE == "</TO_GENERALIZE>"

Min(a, b) == IF a < b THEN a ELSE b

Range(s) == {s[i] : i \in DOMAIN s}

----------------------------------------------------------------------------
(* Strings of digits, as str() and the f-strings of the source print numbers *)

DigitChar(d) == <<"0", "1", "2", "3", "4", "5", "6", "7", "8", "9">>[d + 1]

RECURSIVE Digits(_)
Digits(n) == IF n < 10 THEN <<DigitChar(n)>>
             ELSE Digits(n \div 10) \o <<DigitChar(n % 10)>>

----------------------------------------------------------------------------
(* Span extraction: re.search(r"<TO_GENERALIZE>(.*?)</TO_GENERALIZE>", line) *)

\* least index >= from at which tok stands in line, 0 if none
FirstIndex(line, tok, from) ==
    LET hits == {i \in from..Len(line) : line[i] = tok}
    IN  IF hits = {} THEN 0 ELSE CHOOSE i \in hits : \A j \in hits : i <= j

\* the leftmost non-greedy match at or after from: <<open, close>>, <<0, 0>> if none
Match(line, from) ==
    LET o == FirstIndex(line, OPEN, from)
        c == IF o = 0 THEN 0 ELSE FirstIndex(line, CLOSE, o + 1)
    IN  IF o = 0 \/ c = 0 THEN <<0, 0>> ELSE <<o, c>>

HasMatch(line) == Match(line, 1) # <<0, 0>>

\* match.group(1)
Group(line) == LET m == Match(line, 1) IN SubSeq(line, m[1] + 1, m[2] - 1)

DirtyIndices(doc) ==
    SelectSeq([i \in 1..Len(doc) |-> i], LAMBDA i : HasMatch(doc[i]))

DirtyTexts(doc) ==
    LET di == DirtyIndices(doc) IN [k \in 1..Len(di) |-> Group(doc[di[k]])]

----------------------------------------------------------------------------
(* Batching: [dirty_texts[i:i + BATCH_SIZE] for i in range(0, total, BATCH_SIZE)] *)

\* len(range(0, total_dirty, BATCH_SIZE))
TotalBatches(texts) == (Len(texts) + batch_size - 1) \div batch_size

BatchesOverlapping(texts) ==
    [b \in 0..(TotalBatches(texts) - 1) |->
        SubSeq(texts, b * batch_size + 1, Min((b + 1) * batch_size + 1, Len(texts)))]

Batches(texts) ==
    [b \in 0..(TotalBatches(texts) - 1) |->
        SubSeq(texts, b * batch_size + 1, Min((b + 1) * batch_size, Len(texts)))]

----------------------------------------------------------------------------
(* Reassembly: re.sub(r"<TO_GENERALIZE>.*?</TO_GENERALIZE>", lambda m: safe_text, line) *)

RECURSIVE ReSubFrom(_, _, _)
ReSubFrom(line, text, from) ==
    LET m == Match(line, from)
    IN  IF m = <<0, 0>> THEN SubSeq(line, from, Len(line))
        ELSE SubSeq(line, from, m[1] - 1) \o text \o ReSubFrom(line, text, m[2] + 1)

ReSubKeepDelimiters(line, text) ==
    LET m == Match(line, 1)
    IN  IF m = <<0, 0>> THEN line
        ELSE SubSeq(line, 1, m[1]) \o text \o SubSeq(line, m[2], Len(line))

ReSub(line, text) == ReSubFrom(line, text, 1)

Reassemble(doc, indices, texts) ==
    [j \in 1..Len(doc) |->
        IF \E i \in 1..Len(indices) : indices[i] = j
        THEN LET i == CHOOSE i \in 1..Len(indices) : indices[i] = j
             IN  ReSub(doc[j], texts[i])
        ELSE doc[j]]

----------------------------------------------------------------------------
(* The external generation service, seen through one call of the retry loop *)

\* what one call can come to: the service raises (a rate-limit error or another
\* error), or it answers and the answer, fence-stripped, is not valid JSON (the
\* parser stops at character pos), is JSON but no list, or is a list of items.
\* The items of a list are texts; the only thing the retry controller reads of a
\* list is its length.
NoOutcome == [kind |-> "none", items |-> <<>>, pos |-> 0]

Rewrite(text) == <<"safe">> \o text

ResponseList(b, n) ==
    [i \in 1..n |-> IF i <= Len(b) THEN Rewrite(b[i]) ELSE <<"extra">>]

\* positions at which json.loads may give up on a malformed answer
ErrPositions == {0, 429}

DeterministicServices == {"rewrite", "verbose", "fail"}

ServiceModes == {"any"} \cup DeterministicServices

ServiceOutcomes(mode, b) ==
    CASE mode = "rewrite" -> {[kind |-> "list", items |-> ResponseList(b, Len(b)), pos |-> 0]}
      [] mode = "verbose" -> {[kind |-> "list", items |-> ResponseList(b, Len(b) + 1), pos |-> 0]}
      [] mode = "fail"    -> {[kind |-> "error", items |-> <<>>, pos |-> 0]}
      [] OTHER ->
            {[kind |-> k, items |-> <<>>, pos |-> 0] : k \in {"rate_limit", "error", "not_list"}}
            \cup {[kind |-> "unparsable", items |-> <<>>, pos |-> p] : p \in ErrPositions}
            \cup {[kind |-> "list", items |-> ResponseList(b, n), pos |-> 0] :
                        n \in 0..(Len(b) + MaxExtra)}

----------------------------------------------------------------------------
(* process_batch_with_retry: acceptance, repair and the exception handler *)

AcceptedStrict(n, k) == n * AcceptDen > k * AcceptNum

\* len(batch_results) >= len(batch) * 0.9
Accepted(n, k) == n * AcceptDen >= k * AcceptNum

PadFromStart(r, b) == r \o SubSeq(b, 1, Len(b) - Len(r))

\* while len(batch_results) < len(batch): batch_results.append(batch[len(batch_results)])
RECURSIVE PadTo(_, _)
PadTo(r, b) == IF Len(r) < Len(b) THEN PadTo(Append(r, b[Len(r) + 1]), b) ELSE r

RepairUntruncated(items, b) == PadTo(items, b)

\* truncate or pad to exact size
Repair(items, b) ==
    IF Len(items) > Len(b) THEN SubSeq(items, 1, Len(b)) ELSE PadTo(items, b)

\* the try block raises: the service did, json.loads did, or one of the two ValueErrors
Raises(o, b) ==
    \/ o.kind \in {"rate_limit", "error", "unparsable", "not_list"}
    \/ o.kind = "list" /\ ~Accepted(Len(o.items), Len(b))

\* str(e), as a sequence of characters and words
ErrorStr(o, b) ==
    CASE o.kind = "rate_limit" -> Digits(429) \o <<" resource exhausted, check ", "quota">>
      [] o.kind = "error"      -> Digits(500) \o <<" internal error">>
      [] o.kind = "unparsable" ->
            <<"Expecting value: line ">> \o Digits(1) \o <<" column ">>
                \o Digits(o.pos + 1) \o <<" (char ">> \o Digits(o.pos) \o <<")">>
      [] o.kind = "not_list"   -> <<"Output is not a list">>
      [] OTHER ->
            <<"Too few items: ">> \o Digits(Len(o.items)) \o <<"/">> \o Digits(Len(b))

\* "429" in error_str or "quota" in error_str.lower()
IsRateLimit(msg) ==
    \/ \E i \in 1..(Len(msg) - 2) : msg[i] = "4" /\ msg[i + 1] = "2" /\ msg[i + 2] = "9"
    \/ "quota" \in Range(msg)

RetriesAfterCounted(r, rateLimited) == r + 1

\* retries += 1, and for a rate limit retries -= 1 again
RetriesAfter(r, rateLimited) == IF rateLimited THEN (r + 1) - 1 ELSE r + 1

Saturate(n) == Min(n + 1, MaxCalls)

\* response = model.generate_content(...): the call is made and comes back
CallService ==
    /\ pc = "attempt"
    /\ \E o \in ServiceOutcomes(svc, batch) : outcome' = o
    /\ calls' = Saturate(calls)
    /\ pc' = "response"
    /\ sinceCall' = "call"
    /\ UNCHANGED <<input, ckptFile, output, svc, batch_size, lines, dirty_indices, dirty_texts,
                   completed_batch_indices, cleaned_texts, batch_idx, batch, retries,
                   result, rateLimits, onlyErrors, how, loaded, sent, stale, rawCount,
                   reported, exit>>

\* the response is a list of at least 90% of the items: repair it and return it
HandleAccept ==
    /\ pc = "response"
    /\ ~Raises(outcome, batch)
    /\ result' = Repair(outcome.items, batch)
    /\ how' = "accepted"
    /\ onlyErrors' = FALSE
    /\ pc' = "returned"
    /\ UNCHANGED <<input, ckptFile, output, svc, batch_size, lines, dirty_indices, dirty_texts,
                   completed_batch_indices, cleaned_texts, batch_idx, batch, retries,
                   outcome, calls, rateLimits, loaded, sent, stale, rawCount, reported, exit, sinceCall>>

\* except Exception, the error string carries the rate-limit marker:
\* time.sleep(65), the retry is not counted, continue
HandleRateLimit ==
    /\ pc = "response"
    /\ Raises(outcome, batch)
    /\ IsRateLimit(ErrorStr(outcome, batch))
    /\ retries' = RetriesAfter(retries, TRUE)
    /\ sinceCall' = "pause"
    /\ rateLimits' = IF outcome.kind = "rate_limit" THEN Saturate(rateLimits) ELSE rateLimits
    /\ onlyErrors' = (onlyErrors /\ outcome.kind # "rate_limit")
    /\ IF retries' < max_retries
       THEN pc' = "attempt" /\ outcome' = NoOutcome /\ UNCHANGED <<result, how>>
       ELSE pc' = "returned" /\ result' = batch /\ how' = "fallback" /\ UNCHANGED outcome
    /\ UNCHANGED <<input, ckptFile, output, svc, batch_size, lines, dirty_indices, dirty_texts,
                   completed_batch_indices, cleaned_texts, batch_idx, batch,
                   calls, loaded, sent, stale, rawCount, reported, exit>>

HandleFailureReturnsNothing ==
    /\ pc = "response"
    /\ Raises(outcome, batch)
    /\ ~IsRateLimit(ErrorStr(outcome, batch))
    /\ retries' = RetriesAfter(retries, FALSE)
    /\ sinceCall' = IF retries' < max_retries THEN "pause" ELSE sinceCall
    /\ IF retries' < max_retries
       THEN pc' = "attempt" /\ outcome' = NoOutcome /\ UNCHANGED <<result, how>>
       ELSE pc' = "returned" /\ result' = <<>> /\ how' = "fallback" /\ UNCHANGED outcome
    /\ UNCHANGED <<input, ckptFile, output, svc, batch_size, lines, dirty_indices, dirty_texts,
                   completed_batch_indices, cleaned_texts, batch_idx, batch,
                   calls, rateLimits, onlyErrors, loaded, sent, stale, rawCount,
                   reported, exit>>

\* except Exception, any other error: the retry is counted; time.sleep(10) and
\* again while retries < max_retries, else the originals are returned unchanged
HandleFailure ==
    /\ pc = "response"
    /\ Raises(outcome, batch)
    /\ ~IsRateLimit(ErrorStr(outcome, batch))
    /\ retries' = RetriesAfter(retries, FALSE)
    /\ sinceCall' = IF retries' < max_retries THEN "pause" ELSE sinceCall
    /\ IF retries' < max_retries
       THEN pc' = "attempt" /\ outcome' = NoOutcome /\ UNCHANGED <<result, how>>
       ELSE pc' = "returned" /\ result' = batch /\ how' = "fallback" /\ UNCHANGED outcome
    /\ UNCHANGED <<input, ckptFile, output, svc, batch_size, lines, dirty_indices, dirty_texts,
                   completed_batch_indices, cleaned_texts, batch_idx, batch,
                   calls, rateLimits, onlyErrors, loaded, sent, stale, rawCount,
                   reported, exit>>

----------------------------------------------------------------------------
(* Files *)

NoFile == [written |-> FALSE, lines |-> <<>>]

Absent == [state |-> "absent", completed_batches |-> <<>>, cleaned_texts |-> <<>>]

\* open(CHECKPOINT_FILE, 'w') has emptied the file and json.dump has not finished
Corrupt == [state |-> "corrupt", completed_batches |-> <<>>, cleaned_texts |-> <<>>]

\* list(completed_batch_indices), in the order the set of small integers yields them
RECURSIVE SetToList(_)
SetToList(S) ==
    IF S = {} THEN <<>>
    ELSE LET m == CHOOSE x \in S : \A y \in S : x <= y
         IN  <<m>> \o SetToList(S \ {m})

SavedCheckpointBatchesOnly(done, texts) ==
    [state |-> "valid", completed_batches |-> SetToList(done), cleaned_texts |-> <<>>]

\* what save_checkpoint leaves in the file once json.dump is through
SavedCheckpoint(done, texts) ==
    [state |-> "valid", completed_batches |-> SetToList(done), cleaned_texts |-> texts]

\* load_checkpoint on a file json.load can read, or on no file
LoadCheckpoint(file) ==
    IF file.state = "valid"
    THEN [completed_batches |-> file.completed_batches, cleaned_texts |-> file.cleaned_texts]
    ELSE [completed_batches |-> <<>>, cleaned_texts |-> <<>>]

DocA == << <<"A:", OPEN, "a1", CLOSE>>,
           <<"B:", "normal line">>,
           <<OPEN, "a2", CLOSE, "tail">>,
           <<OPEN, "a3", CLOSE>>,
           <<"C:", OPEN, "a4", CLOSE>>,
           <<OPEN, "a5", CLOSE>> >>

DocB == << <<OPEN, "b1", CLOSE, "mid", OPEN, "b2", CLOSE>>,
           <<"x", OPEN, "unclosed">>,
           <<OPEN, "b3", CLOSE>>,
           <<"D:", OPEN, "b4", CLOSE>> >>

Missing == [exists |-> FALSE, lines |-> <<>>]

Inputs == {Missing} \cup {[exists |-> TRUE, lines |-> d] : d \in {DocA, DocB}}

----------------------------------------------------------------------------
(* process_dataset *)

\* the locals of a process that is not running
NoRun ==
    /\ lines' = <<>> /\ dirty_indices' = <<>> /\ dirty_texts' = <<>>
    /\ completed_batch_indices' = {} /\ cleaned_texts' = <<>> /\ batch_idx' = 0
    /\ batch' = <<>> /\ retries' = 0 /\ outcome' = NoOutcome /\ result' = <<>>
    /\ calls' = 0 /\ rateLimits' = 0 /\ onlyErrors' = TRUE /\ how' = "none"
    /\ loaded' = {} /\ sent' = {} /\ rawCount' = 0 /\ reported' = FALSE
    /\ sinceCall' = "none"

StartMissingInputWritesEmpty ==
    /\ pc = "idle"
    /\ ~input.exists
    /\ output' = [written |-> TRUE, lines |-> <<>>]
    /\ exit' = "missing_input"
    /\ pc' = "idle"
    /\ NoRun
    /\ UNCHANGED <<input, ckptFile, svc, batch_size, stale>>

\* except FileNotFoundError: print and return
StartMissingInput ==
    /\ pc = "idle"
    /\ ~input.exists
    /\ exit' = "missing_input"
    /\ pc' = "idle"
    /\ NoRun
    /\ UNCHANGED <<input, ckptFile, output, svc, batch_size, stale>>

\* json.load raises on the emptied or partly written checkpoint file
StartLoadError ==
    /\ pc = "idle"
    /\ input.exists
    /\ ckptFile.state = "corrupt"
    /\ exit' = "load_error"
    /\ pc' = "idle"
    /\ NoRun
    /\ UNCHANGED <<input, ckptFile, output, svc, batch_size, stale>>

\* read the input, load the checkpoint, scan for the tags, make the batches
StartRun ==
    /\ pc = "idle"
    /\ input.exists
    /\ ckptFile.state # "corrupt"
    /\ LET checkpoint == LoadCheckpoint(ckptFile)
       IN  /\ completed_batch_indices' = Range(checkpoint.completed_batches)
           /\ cleaned_texts' = checkpoint.cleaned_texts
           /\ loaded' = Range(checkpoint.completed_batches)
    /\ lines' = input.lines
    /\ dirty_indices' = DirtyIndices(input.lines)
    /\ dirty_texts' = DirtyTexts(input.lines)
    /\ batch_idx' = 0
    /\ pc' = "loop"
    /\ exit' = "running"
    /\ batch' = <<>> /\ retries' = 0 /\ outcome' = NoOutcome /\ result' = <<>>
    /\ calls' = 0 /\ rateLimits' = 0 /\ onlyErrors' = TRUE /\ how' = "none"
    /\ sent' = {} /\ rawCount' = 0 /\ reported' = FALSE
    /\ sinceCall' = "none"
    /\ UNCHANGED <<input, ckptFile, output, svc, batch_size, stale>>

\* if batch_idx in completed_batch_indices: continue
SkipBatch ==
    /\ pc = "loop"
    /\ batch_idx < TotalBatches(dirty_texts)
    /\ batch_idx \in completed_batch_indices
    /\ batch_idx' = batch_idx + 1
    /\ UNCHANGED <<input, ckptFile, output, svc, batch_size, pc, lines, dirty_indices, dirty_texts,
                   completed_batch_indices, cleaned_texts, batch, retries, outcome,
                   result, calls, rateLimits, onlyErrors, how, loaded, sent, stale,
                   rawCount, reported, exit, sinceCall>>

\* process_batch_with_retry(batch, batch_idx) is entered: retries = 0
BeginBatch ==
    /\ pc = "loop"
    /\ batch_idx < TotalBatches(dirty_texts)
    /\ batch_idx \notin completed_batch_indices
    /\ batch' = Batches(dirty_texts)[batch_idx]
    /\ retries' = 0
    /\ outcome' = NoOutcome /\ result' = <<>>
    /\ calls' = 0 /\ rateLimits' = 0 /\ onlyErrors' = TRUE /\ how' = "none"
    /\ sent' = sent \cup {batch_idx}
    /\ pc' = "attempt"
    /\ UNCHANGED <<input, ckptFile, output, svc, batch_size, lines, dirty_indices, dirty_texts,
                   completed_batch_indices, cleaned_texts, batch_idx, loaded, stale,
                   rawCount, reported, exit, sinceCall>>

ExtendAndOpenPrepends ==
    /\ pc = "returned"
    /\ cleaned_texts' = result \o cleaned_texts
    /\ completed_batch_indices' = completed_batch_indices \cup {batch_idx}
    /\ ckptFile' = Corrupt
    /\ pc' = "saving"
    /\ batch' = <<>> /\ retries' = 0 /\ outcome' = NoOutcome /\ result' = <<>>
    /\ calls' = 0 /\ rateLimits' = 0 /\ onlyErrors' = TRUE /\ how' = "none"
    /\ UNCHANGED <<input, output, svc, batch_size, lines, dirty_indices, dirty_texts, batch_idx,
                   loaded, sent, stale, rawCount, reported, exit, sinceCall>>

\* cleaned_texts.extend(batch_results); completed_batch_indices.add(batch_idx);
\* save_checkpoint opens the file for writing, which empties it (the locals of the
\* retry controller, which has returned, are no more)
ExtendAndOpen ==
    /\ pc = "returned"
    /\ cleaned_texts' = cleaned_texts \o result
    /\ completed_batch_indices' = completed_batch_indices \cup {batch_idx}
    /\ ckptFile' = Corrupt
    /\ pc' = "saving"
    /\ batch' = <<>> /\ retries' = 0 /\ outcome' = NoOutcome /\ result' = <<>>
    /\ calls' = 0 /\ rateLimits' = 0 /\ onlyErrors' = TRUE /\ how' = "none"
    /\ UNCHANGED <<input, output, svc, batch_size, lines, dirty_indices, dirty_texts, batch_idx,
                   loaded, sent, stale, rawCount, reported, exit, sinceCall>>

FinishSaveNoPause ==
    /\ pc = "saving"
    /\ ckptFile' = SavedCheckpoint(completed_batch_indices, cleaned_texts)
    /\ batch_idx' = batch_idx + 1
    /\ pc' = "loop"
    /\ UNCHANGED <<input, output, svc, batch_size, lines, dirty_indices, dirty_texts,
                   completed_batch_indices, cleaned_texts, batch, retries, outcome,
                   result, calls, rateLimits, onlyErrors, how, loaded, sent, stale,
                   rawCount, reported, exit, sinceCall>>

\* json.dump writes the record and the file is closed; time.sleep(5) unless this
\* was the last batch; on to the next batch
FinishSave ==
    /\ pc = "saving"
    /\ ckptFile' = SavedCheckpoint(completed_batch_indices, cleaned_texts)
    /\ batch_idx' = batch_idx + 1
    /\ pc' = "loop"
    /\ sinceCall' = IF batch_idx < TotalBatches(dirty_texts) - 1 THEN "pause" ELSE sinceCall
    /\ UNCHANGED <<input, output, svc, batch_size, lines, dirty_indices, dirty_texts,
                   completed_batch_indices, cleaned_texts, batch, retries, outcome,
                   result, calls, rateLimits, onlyErrors, how, loaded, sent, stale,
                   rawCount, reported, exit>>

\* while len(cleaned_texts) < total_dirty: cleaned_texts.append(dirty_texts[len(cleaned_texts)])
RECURSIVE PadWithOriginals(_, _)
PadWithOriginals(texts, originals) ==
    IF Len(texts) < Len(originals)
    THEN PadWithOriginals(Append(texts, originals[Len(texts) + 1]), originals)
    ELSE texts

\* the loop is over: "validate we got everything"; a mismatch is printed and,
\* if short, padded with originals
Validate ==
    /\ pc = "loop"
    /\ batch_idx = TotalBatches(dirty_texts)
    /\ rawCount' = Len(cleaned_texts)
    /\ reported' = (Len(cleaned_texts) # Len(dirty_indices))
    /\ cleaned_texts' = IF Len(cleaned_texts) # Len(dirty_indices)
                        THEN PadWithOriginals(cleaned_texts, dirty_texts)
                        ELSE cleaned_texts
    /\ pc' = "rebuild"
    /\ UNCHANGED <<input, ckptFile, output, svc, batch_size, lines, dirty_indices, dirty_texts,
                   completed_batch_indices, batch_idx, batch, retries, outcome, result,
                   calls, rateLimits, onlyErrors, how, loaded, sent, stale, exit, sinceCall>>

\* reconstruct the lines and write OUTPUT_FILE (the write is taken as one step)
RebuildAndWrite ==
    /\ pc = "rebuild"
    /\ lines' = Reassemble(lines, dirty_indices, cleaned_texts)
    /\ output' = [written |-> TRUE, lines |-> lines']
    /\ pc' = "cleanup"
    /\ UNCHANGED <<input, ckptFile, svc, batch_size, dirty_indices, dirty_texts,
                   completed_batch_indices, cleaned_texts, batch_idx, batch, retries,
                   outcome, result, calls, rateLimits, onlyErrors, how, loaded, sent, stale,
                   rawCount, reported, exit, sinceCall>>

ClearCheckpointKeepsFile ==
    /\ pc = "cleanup"
    /\ exit' = "done"
    /\ pc' = "idle"
    /\ NoRun
    /\ UNCHANGED <<input, ckptFile, output, svc, batch_size, stale>>

\* if os.path.exists(CHECKPOINT_FILE): os.remove(CHECKPOINT_FILE); the run returns
ClearCheckpoint ==
    /\ pc = "cleanup"
    /\ ckptFile' = Absent
    /\ stale' = FALSE
    /\ exit' = "done"
    /\ pc' = "idle"
    /\ NoRun
    /\ UNCHANGED <<input, output, svc, batch_size>>

\* the process is interrupted or killed: its memory is gone, the files stay
Crash ==
    /\ pc # "idle"
    /\ exit' = "crash"
    /\ pc' = "idle"
    /\ NoRun
    /\ UNCHANGED <<input, ckptFile, output, svc, batch_size, stale>>

\* between two runs the input file is replaced (or removed, or put back)
ChangeInput ==
    /\ pc = "idle"
    /\ \E d \in Inputs \ {input} : input' = d
    /\ stale' = (stale \/ ckptFile.state = "valid")
    /\ UNCHANGED <<ckptFile, output, svc, batch_size, pc, lines, dirty_indices, dirty_texts,
                   completed_batch_indices, cleaned_texts, batch_idx, batch, retries,
                   outcome, result, calls, rateLimits, onlyErrors, how, loaded, sent,
                   rawCount, reported, exit, sinceCall>>

----------------------------------------------------------------------------
(* The pipeline: runs of process_dataset, interruptions, a changing input *)

Init ==
    /\ input \in Inputs
    /\ ckptFile = Absent
    /\ output = NoFile
    /\ svc \in ServiceModes
    /\ batch_size = BatchSize
    /\ pc = "idle"
    /\ lines = <<>> /\ dirty_indices = <<>> /\ dirty_texts = <<>>
    /\ completed_batch_indices = {} /\ cleaned_texts = <<>> /\ batch_idx = 0
    /\ batch = <<>> /\ retries = 0 /\ outcome = NoOutcome /\ result = <<>>
    /\ calls = 0 /\ rateLimits = 0 /\ onlyErrors = TRUE /\ how = "none"
    /\ loaded = {} /\ sent = {} /\ stale = FALSE /\ rawCount = 0 /\ reported = FALSE
    /\ exit = "none"
    /\ sinceCall = "none"

Next ==
    \/ StartMissingInput
    \/ StartLoadError
    \/ StartRun
    \/ SkipBatch
    \/ BeginBatch
    \/ CallService
    \/ HandleAccept
    \/ HandleRateLimit
    \/ HandleFailure
    \/ ExtendAndOpen
    \/ FinishSave
    \/ Validate
    \/ RebuildAndWrite
    \/ ClearCheckpoint
    \/ Crash
    \/ ChangeInput

Spec == Init /\ [][Next]_vars

----------------------------------------------------------------------------
(* The retry controller on its own: one invocation of process_batch_with_retry
   on a batch of 1..MaxK texts, against a service that may do anything *)

TestBatch(k) == [i \in 1..k |-> <<"m">> \o Digits(i)]

RetryInit ==
    /\ input = Missing
    /\ ckptFile = Absent
    /\ output = NoFile
    /\ svc = "any"
    /\ batch_size = BatchSize
    /\ pc = "attempt"
    /\ lines = <<>> /\ dirty_indices = <<>> /\ dirty_texts = <<>>
    /\ completed_batch_indices = {} /\ cleaned_texts = <<>> /\ batch_idx = 0
    /\ batch \in {TestBatch(k) : k \in 1..MaxK}
    /\ retries = 0 /\ outcome = NoOutcome /\ result = <<>>
    /\ calls = 0 /\ rateLimits = 0 /\ onlyErrors = TRUE /\ how = "none"
    /\ loaded = {} /\ sent = {} /\ stale = FALSE /\ rawCount = 0 /\ reported = FALSE
    /\ exit = "running"
    /\ sinceCall = "none"

RetryNext ==
    \/ CallService
    \/ HandleAccept
    \/ HandleRateLimit
    \/ HandleFailure

\* the single thread keeps running and every service call comes back
RetrySpec == RetryInit /\ [][RetryNext]_vars /\ WF_vars(RetryNext)

----------------------------------------------------------------------------
(* Uninterrupted runs of process_dataset over small documents, for every
   BATCH_SIZE in 1..MaxBatchSize, against a service that rewrites every text and
   against one that fails every call (so that every text is kept as it was) *)

Alphabet == {OPEN, CLOSE, "a", "b"}

LinesUpTo(n) == UNION {[1..k -> Alphabet] : k \in 0..n}

\* a plain line, a line with one span, an unclosed tag, a line with two spans
FixedLines == { <<"a">>,
                <<"a", OPEN, "b", CLOSE>>,
                <<OPEN, "a">>,
                <<OPEN, "a", CLOSE, "b", OPEN, "b", CLOSE>> }

\* n lines of one span each
SpanDoc(n) == [i \in 1..n |-> <<"s", OPEN>> \o Digits(i) \o <<CLOSE>>]

TestDocs ==
    {<<l>> : l \in LinesUpTo(MaxLineLen)}
    \cup [1..2 -> FixedLines] \cup [1..3 -> FixedLines]
    \cup {SpanDoc(n) : n \in 0..MaxSpans}

DocInit ==
    /\ input \in {[exists |-> TRUE, lines |-> d] : d \in TestDocs}
    /\ ckptFile = Absent
    /\ output = NoFile
    /\ svc \in {"rewrite", "fail"}
    /\ batch_size \in 1..MaxBatchSize
    /\ pc = "idle"
    /\ lines = <<>> /\ dirty_indices = <<>> /\ dirty_texts = <<>>
    /\ completed_batch_indices = {} /\ cleaned_texts = <<>> /\ batch_idx = 0
    /\ batch = <<>> /\ retries = 0 /\ outcome = NoOutcome /\ result = <<>>
    /\ calls = 0 /\ rateLimits = 0 /\ onlyErrors = TRUE /\ how = "none"
    /\ loaded = {} /\ sent = {} /\ stale = FALSE /\ rawCount = 0 /\ reported = FALSE
    /\ exit = "none"
    /\ sinceCall = "none"

DocNext ==
    \/ StartRun
    \/ BeginBatch
    \/ CallService
    \/ HandleAccept
    \/ HandleFailure
    \/ ExtendAndOpen
    \/ FinishSave
    \/ Validate
    \/ RebuildAndWrite
    \/ ClearCheckpoint

DocSpec == DocInit /\ [][DocNext]_vars

----------------------------------------------------------------------------
(* Properties of the retry controller, checked under RetrySpec *)

\* C1: whenever process_batch_with_retry returns, whatever the service did, the
\* returned list has exactly as many items as the batch.
C1_ResultHasBatchLength == pc = "returned" => Len(result) = Len(batch)

\* an over-sized response was accepted and cut back to the batch's length
C1_Witness ==
    /\ pc = "returned" /\ how = "accepted"
    /\ Len(outcome.items) = Len(batch) + 1
    /\ Len(result) = Len(batch)

\* C2: if every attempt failed with a non-rate-limit error, the controller
\* returns the original batch and exactly max_retries calls were made.
C2_FallbackAfterMaxRetriesCalls ==
    (pc = "returned" /\ onlyErrors) => (result = batch /\ calls = max_retries)

\* C3: an attempt on which the service reports a rate limit leaves the retry
\* counter as it was and is followed by another attempt; and a full response,
\* whenever it comes, is what is returned.
C3_RateLimitKeepsBudget ==
    [][ /\ (pc = "response" /\ outcome.kind = "rate_limit")
            => (retries' = retries /\ pc' = "attempt")
        /\ (pc = "response" /\ outcome.kind = "list" /\ Len(outcome.items) = Len(batch))
            => (pc' = "returned" /\ result' = outcome.items) ]_vars

\* two rate limits, then the rewrite: returned, the budget untouched
C3_Witness ==
    /\ pc = "returned" /\ how = "accepted"
    /\ rateLimits >= 2 /\ retries = 0
    /\ result = ResponseList(batch, Len(batch))

\* C4: whatever the service does, as long as each call comes back,
\* process_batch_with_retry eventually returns.
C4_EventuallyReturns == <>(pc = "returned")

\* C9: a response list of n items for a batch of K is accepted iff
\* n >= ceil(0.9 * K); otherwise the attempt counts as a failed try and yields
\* no accepted result.
C9_AcceptanceThreshold ==
    [][ (pc = "response" /\ outcome.kind = "list") =>
            LET n == Len(outcome.items)
                ceil90 == (9 * Len(batch) + 9) \div 10
            IN  IF n >= ceil90
                THEN pc' = "returned" /\ how' = "accepted" /\ retries' = retries
                ELSE how' # "accepted" /\ retries' = retries + 1 ]_vars

\* K = 10: a response of 8 items was rejected (here as the last allowed try)
C9_Witness ==
    /\ pc = "returned" /\ how = "fallback"
    /\ Len(batch) = 10
    /\ outcome.kind = "list" /\ Len(outcome.items) = 8

\* C10: an accepted response of n items is returned as a list of K items, the
\* first min(n, K) the response's own, the rest the original inputs at their
\* positions.
C10_RepairContent ==
    (pc = "returned" /\ how = "accepted") =>
        /\ Len(result) = Len(batch)
        /\ \A i \in 1..Len(batch) :
              result[i] = IF i <= Len(outcome.items) THEN outcome.items[i] ELSE batch[i]

\* K = 10, n = 9: ten items come back, the tenth the original tenth input
C10_Witness ==
    /\ pc = "returned" /\ how = "accepted"
    /\ Len(batch) = 10 /\ Len(outcome.items) = 9
    /\ Len(result) = 10 /\ result[10] = batch[10] /\ result[9] = outcome.items[9]

----------------------------------------------------------------------------
(* Properties of process_dataset and its checkpoint, checked under Spec *)

LoopDone == pc = "loop" /\ batch_idx = TotalBatches(dirty_texts)

AllBatchIndices == 0..(TotalBatches(dirty_texts) - 1)

\* what an uninterrupted run accumulates against a deterministic service: the
\* rewrite of every text, and for the failing service the texts themselves
UninterruptedTexts(mode, texts) ==
    IF mode = "fail" THEN texts ELSE [i \in 1..Len(texts) |-> Rewrite(texts[i])]

\* C5: with a deterministic service and the same input, a run resumed from the
\* checkpoint of batches {0..k-1} hands only batches k..n-1 to the service, and
\* when its loop ends the accumulated texts are those of an uninterrupted run.
C5_ResumeEquivalence ==
    (svc \in DeterministicServices /\ ~stale /\ pc # "idle") =>
        /\ sent \cap loaded = {}
        /\ LoopDone =>
              /\ sent = AllBatchIndices \ loaded
              /\ cleaned_texts = UninterruptedTexts(svc, dirty_texts)

\* batches {0, 1} of 3 came from the checkpoint, only batch 2 was sent, and the
\* accumulated texts are the five rewrites
C5_Witness ==
    /\ LoopDone /\ svc = "rewrite" /\ ~stale
    /\ loaded = {0, 1} /\ sent = {2}
    /\ Len(cleaned_texts) = 5
    /\ cleaned_texts = UninterruptedTexts(svc, dirty_texts)

IsPrefix(s, t) == Len(s) <= Len(t) /\ SubSeq(t, 1, Len(s)) = s

\* C6: at every point of a run, what the next start would get from the checkpoint
\* file if the process died now (nothing, when json.load cannot read the file)
\* holds every completed batch but at most one, and nothing else.
C6_CrashLosesAtMostOneBatch ==
    pc # "idle" =>
        LET checkpoint == LoadCheckpoint(ckptFile)
            saved == Range(checkpoint.completed_batches)
        IN  /\ saved \subseteq completed_batch_indices
            /\ Cardinality(completed_batch_indices \ saved) <= 1
            /\ IsPrefix(checkpoint.cleaned_texts, cleaned_texts)

\* C7: the run does not get as far as writing the output when the number of
\* accumulated texts differed from the number of spans.
C7_MismatchStopsRun == pc = "cleanup" => rawCount = Len(dirty_indices)

\* C8: the checkpoint file is removed only when the accumulated-text count of the
\* batch loop, before any padding, equals the span count.
C8_ClearedOnlyOnMatch ==
    [][(ckptFile.state # "absent" /\ ckptFile'.state = "absent")
            => rawCount = Len(dirty_indices)]_vars

----------------------------------------------------------------------------
(* Properties of extraction, batching and reassembly, checked under DocSpec *)

\* the line without the items at the positions in S
DropAt(line, S) ==
    LET keep == SelectSeq([i \in 1..Len(line) |-> i], LAMBDA i : i \notin S)
    IN  [k \in 1..Len(keep) |-> line[keep[k]]]

\* C11 as stated: reassembling a document with the extracted texts themselves
\* (nothing rewritten: every call failed and the originals were kept) yields
\* the document itself.
C11_RoundTripIdentity ==
    (svc = "fail" /\ output.written) => output.lines = input.lines

\* C11, amended: reassembling a document with the extracted texts themselves
\* yields a document of as many lines, in which a line without a span is the
\* input's line and a line with a span is not: up to the end of its first span
\* it is the input's line without the two delimiters, and when the line holds no
\* further span the whole line is the input's without these two delimiters.  The
\* result equals the document exactly when the document has no span.
C11_RoundTripWithoutDelimiters ==
    (svc = "fail" /\ output.written) =>
        /\ Len(output.lines) = Len(input.lines)
        /\ \A j \in 1..Len(input.lines) :
              LET l == input.lines[j]
                  out == output.lines[j]
                  m == Match(l, 1)
              IN  IF ~HasMatch(l) THEN out = l
                  ELSE /\ out # l
                       /\ Len(out) >= m[2] - 2
                       /\ SubSeq(out, 1, m[2] - 2) = SubSeq(DropAt(l, {m[1], m[2]}), 1, m[2] - 2)
                       /\ ~HasMatch(SubSeq(l, m[2] + 1, Len(l))) => out = DropAt(l, {m[1], m[2]})
        /\ (output.lines = input.lines) <=> (DirtyIndices(input.lines) = <<>>)

\* a one-line document with one span came back without the two delimiters
C11_Witness ==
    /\ svc = "fail" /\ output.written
    /\ input.lines = << <<"a", OPEN, "b", CLOSE>> >>
    /\ output.lines = << <<"a", "b">> >>

\* C12: in the output document the span extracted from line dirty_indices[i] is
\* replaced, delimiters included, by accumulated text i, and everything else is
\* as in the input: the rest of that line (further delimiter pairs too), every
\* other line, the number of lines and their order.
C12_ReassemblyFrame ==
    pc = "cleanup" =>
        /\ Len(output.lines) = Len(input.lines)
        /\ \A j \in 1..Len(input.lines) :
              LET l == input.lines[j]
                  m == Match(l, 1)
              IN  IF ~HasMatch(l) THEN output.lines[j] = l
                  ELSE \E i \in 1..Len(dirty_indices) :
                          /\ dirty_indices[i] = j
                          /\ output.lines[j] = SubSeq(l, 1, m[1] - 1) \o cleaned_texts[i]
                                                   \o SubSeq(l, m[2] + 1, Len(l))

\* the first k batches, one after the other
RECURSIVE ConcatBatches(_, _)
ConcatBatches(bs, k) == IF k = 0 THEN <<>> ELSE ConcatBatches(bs, k - 1) \o bs[k - 1]

\* C14: for every BATCH_SIZE B >= 1 and every sequence T of extracted texts, the
\* batches in order make up T, every batch but the last has B items, the last
\* has len(T) mod B items (B when that is 0), none is empty, and the batch
\* handed to the retry controller is the one at the loop's index.
C14_Batcher ==
    pc # "idle" =>
        LET T == dirty_texts
            B == batch_size
            bs == Batches(T)
            n == TotalBatches(T)
        IN  /\ DOMAIN bs = 0..(n - 1)
            /\ ConcatBatches(bs, n) = T
            /\ \A b \in 0..(n - 2) : Len(bs[b]) = B
            /\ n > 0 => Len(bs[n - 1]) = (IF Len(T) % B = 0 THEN B ELSE Len(T) % B)
            /\ \A b \in 0..(n - 1) : bs[b] # <<>>
            /\ pc \in {"attempt", "response", "returned"} => batch = bs[batch_idx]

\* six texts in batches of four: the second, last batch has the two left over
C14_Witness ==
    /\ pc = "attempt" /\ batch_size = 4
    /\ Len(dirty_texts) = 6 /\ batch_idx = 1
    /\ batch = SubSeq(dirty_texts, 5, 6)

----------------------------------------------------------------------------
(* Further properties of process_dataset and its checkpoint, checked under Spec *)

\* C13: in a run that started from no checkpoint or from the checkpoint of an
\* interrupted run on the same input, whatever the service did, when the batch
\* loop ends there are as many accumulated texts as extracted spans, and the
\* validation that follows finds nothing to report or to pad.
C13_OutputCardinality ==
    ~stale =>
        /\ LoopDone => Len(cleaned_texts) = Len(dirty_indices)
        /\ pc \in {"rebuild", "cleanup"} =>
                rawCount = Len(dirty_indices) /\ ~reported

\* a resumed run against the arbitrary service: the first text was rewritten by
\* an earlier run, the last batch fell back to its original, five texts in all
C13_Witness ==
    /\ LoopDone /\ ~stale /\ svc = "any"
    /\ loaded # {} /\ how = "none"
    /\ Len(dirty_indices) = 5 /\ Len(cleaned_texts) = 5
    /\ cleaned_texts[1] = Rewrite(dirty_texts[1])
    /\ cleaned_texts[5] = dirty_texts[5]

\* C15: started on a missing input file, process_dataset returns at once: the
\* output file and the checkpoint file are as they were, no service call was
\* made, and no run is ever under way on a missing input.
C15_MissingInputNoEffect ==
    [][ /\ ~input.exists => (pc = "idle" /\ calls = 0)
        /\ (pc = "idle" /\ ~input.exists /\ input' = input) =>
              /\ exit' = "missing_input" /\ pc' = "idle"
              /\ output' = output /\ ckptFile' = ckptFile
              /\ calls' = 0 /\ sinceCall' = "none" ]_vars

\* the input went missing between two runs: the start on it left the earlier
\* output and the checkpoint of the interrupted run in place
C15_Witness ==
    /\ exit = "missing_input" /\ ~input.exists
    /\ output.written /\ ckptFile.state = "valid"

\* C16: once a run has written the output and returned, there is no checkpoint
\* file, and the run that follows starts with nothing completed and nothing
\* accumulated.
C16_ClearedAfterCompletion ==
    [][ /\ exit = "done" =>
              /\ output.written
              /\ ckptFile.state = "absent"
              /\ LoadCheckpoint(ckptFile).completed_batches = <<>>
              /\ LoadCheckpoint(ckptFile).cleaned_texts = <<>>
        /\ (exit = "done" /\ exit' = "running") =>
              completed_batch_indices' = {} /\ cleaned_texts' = <<>> ]_vars

\* a run over the five spans of the first document completed against the
\* rewriting service: the output is there, the checkpoint file is not
C16_Witness ==
    /\ exit = "done" /\ pc = "idle" /\ ckptFile = Absent
    /\ input.lines = DocA
    /\ output.lines = Reassemble(DocA, DirtyIndices(DocA),
                                  UninterruptedTexts("rewrite", DirtyTexts(DocA)))

\* the number of texts in the batches whose indices are in S
RECURSIVE SumSizes(_, _)
SumSizes(bs, S) ==
    IF S = {} THEN 0
    ELSE LET b == CHOOSE x \in S : TRUE IN Len(bs[b]) + SumSizes(bs, S \ {b})

\* C17: whenever the checkpoint file holds a saved state (of this or an earlier,
\* interrupted run on the same input), its completed_batches are indices of
\* batches of the input and its cleaned_texts are as many as these batches hold
\* texts.
C17_CheckpointLength ==
    (ckptFile.state = "valid" /\ ~stale) =>
        LET bs == Batches(DirtyTexts(input.lines))
            done == Range(ckptFile.completed_batches)
        IN  /\ done \subseteq DOMAIN bs
            /\ Len(ckptFile.completed_batches) = Cardinality(done)
            /\ Len(ckptFile.cleaned_texts) = SumSizes(bs, done)

\* the third save of a run resumed after its first batch, against the arbitrary
\* service: batches 0, 1 and the short last batch 2 completed, five texts saved
C17_Witness ==
    /\ ckptFile.state = "valid" /\ ~stale /\ svc = "any"
    /\ pc = "loop" /\ loaded = {0}
    /\ ckptFile.completed_batches = <<0, 1, 2>>
    /\ Len(ckptFile.cleaned_texts) = 5

\* C18: within a run the batches go to the retry controller in strictly
\* ascending index order; and in every run on the input the checkpoint (if any)
\* came from, the completed batches are the first k, for some k, and entry j of
\* the accumulated texts is the rewrite of dirty_texts[j] or dirty_texts[j]
\* itself, whichever run added it.
C18_ForwardOrderAligned ==
    [][ /\ (sent' \ sent # {}) =>
              /\ pc' = "attempt"
              /\ sent' = sent \cup {batch_idx}
              /\ \A b \in sent : b < batch_idx
        /\ (pc # "idle" /\ ~stale) =>
              /\ \E k \in 0..TotalBatches(dirty_texts) :
                    /\ completed_batch_indices = 0..(k - 1)
                    /\ Len(cleaned_texts) = Min(k * batch_size, Len(dirty_texts))
              /\ \A j \in 1..Len(cleaned_texts) :
                    cleaned_texts[j] \in {dirty_texts[j], Rewrite(dirty_texts[j])} ]_vars

\* batch 0 came from the checkpoint, batches 1 and 2 were sent in this order by
\* this run; the first text is a rewrite of the earlier run, the third a
\* fallback original of this one
C18_Witness ==
    /\ LoopDone /\ ~stale /\ svc = "any"
    /\ loaded = {0} /\ sent = {1, 2}
    /\ Len(cleaned_texts) = 5
    /\ cleaned_texts[1] = Rewrite(dirty_texts[1])
    /\ cleaned_texts[3] = dirty_texts[3]
    /\ cleaned_texts[5] = Rewrite(dirty_texts[5])

\* C20: in every run, between any two calls of the service the process has
\* slept at least once (65 s after a rate limit, 10 s before a retry, 5 s
\* between batches): no call is made with the previous call as the last thing
\* that happened.
C20_PausedBetweenCalls ==
    [][ (pc = "attempt" /\ pc' = "response") => sinceCall \in {"none", "pause"} ]_vars

\* the first batch used up its retries without a pause after the last of them
\* and fell back; the call for the second batch comes after the inter-batch pause
C20_Witness ==
    /\ pc = "response" /\ batch_idx = 1 /\ calls = 1 /\ loaded = {} /\ sent = {0, 1}
    /\ cleaned_texts = SubSeq(dirty_texts, 1, 2)
    /\ sinceCall = "call"

----------------------------------------------------------------------------
(* Further properties of the retry controller, checked under RetrySpec *)

\* C19: an attempt whose response is not valid JSON, is not a list or has too
\* few items counts against the retry budget: the retry counter goes up by one,
\* whatever the response or the error message holds.
C19_ProtocolErrorsCounted ==
    [][ ( /\ pc = "response"
          /\ \/ outcome.kind \in {"unparsable", "not_list"}
             \/ outcome.kind = "list" /\ ~Accepted(Len(outcome.items), Len(batch)) )
        => retries' = retries + 1 ]_vars


============================================================================
